---- MODULE Spec2Model ----
(***************************************************************************)
(* Model of JSON::Dataset (field extraction from a QJsonObject) and of     *)
(* UI::DeclarativeWidget (a QWidget painted inside a QQuickPaintedItem).   *)
(***************************************************************************)
EXTENDS Integers, Sequences, FiniteSets, TLC

VARIABLES
    ds,         \* Dataset instances: instance -> record of the m_* members
    who,        \* instance on which read() was called last (0: no call yet)
    arg,        \* the object passed to the last read() call
    ret,        \* what the last read() call returned
    lastOk,     \* per instance: the object of its last read() that returned true
    m_widget,   \* DeclarativeWidget: QPointer<QWidget> m_widget (0: null)
    m_pixmap,   \* DeclarativeWidget: <<widget grabbed, events it had handled>>
    handled,    \* widget -> number of events forwarded to it
    life,       \* widget -> "unborn", "alive" or "deleted"
    fixedSize,  \* widget -> <<w, h>> given to setFixedSize, <<>> when never set
    itemW,      \* QQuickItem width, in half units (qreal)
    itemH,      \* QQuickItem height, in half units (qreal)
    misuse,     \* widgets the item forwarded to, grabbed or resized after deleting them
    crashed     \* the process died in undefined behaviour

vars == <<ds, who, arg, ret, lastOk, m_widget, m_pixmap, handled, life,
          fixedSize, itemW, itemH, misuse, crashed>>

dsVars == <<ds, who, arg, ret, lastOk>>
dwVars == <<m_widget, m_pixmap, handled, life, fixedSize, itemW, itemH,
            misuse, crashed>>

----------------------------------------------------------------------------
(* Bounds *)

\* JSON numbers in the inputs are drawn from -1 .. MaxNum
MaxNum == 2
\* widgets the caller may create
MaxWidgets == 2
\* item width and height range over -1/2 .. MaxDim, in steps of 1/2
MaxDim == 1
\* events forwarded to one widget
MaxEvents == 1

----------------------------------------------------------------------------
(* QJsonValue *)

\* A double is w (kind "whole"), w + 1/2 (kind "half") or w * 2^32 (kind "huge")
Dbl(w, k) == [w |-> w, k |-> k]
Zero == Dbl(0, "whole")

JNull    == [type |-> "null",   b |-> FALSE, d |-> Zero, s |-> ""]
JBool(x) == [type |-> "bool",   b |-> x,     d |-> Zero, s |-> ""]
JDbl(x)  == [type |-> "double", b |-> FALSE, d |-> x,    s |-> ""]
JNum(n)  == JDbl(Dbl(n, "whole"))
JStr(x)  == [type |-> "string", b |-> FALSE, d |-> Zero, s |-> x]

toBool(v)   == IF v.type = "bool" THEN v.b ELSE FALSE
toDouble(v) == IF v.type = "double" THEN v.d ELSE Zero
toString(v) == IF v.type = "string" THEN v.s ELSE ""
\* toInt yields the number only when it is integral and fits an int
toInt(v)    == IF v.type = "double" /\ v.d.k = "whole" THEN v.d.w ELSE 0

qMax(a, b) == IF a < b THEN b ELSE a

----------------------------------------------------------------------------
(* QJsonObject *)

EmptyObject == [k \in {} |-> JNull]
isEmpty(object) == DOMAIN object = {}
contains(object, key) == key \in DOMAIN object
Entry(key, v) == [k \in {key} |-> v]

\* The value under the first of the keys that the object contains, Null otherwise
RECURSIVE JFI_Value(_, _)
JFI_Value(object, keys) ==
    IF keys = << >> THEN JNull
    ELSE IF contains(object, Head(keys)) THEN object[Head(keys)]
    ELSE JFI_Value(object, Tail(keys))

----------------------------------------------------------------------------
(* JSON::Dataset *)

Instances == {1, 2}

\* Faulty variant: m_fftSamples starts at 0
DatasetCtor_zeroSamples ==
    [m_fft |-> FALSE, m_led |-> FALSE, m_log |-> FALSE, m_graph |-> FALSE,
     m_title |-> "", m_value |-> "", m_units |-> "", m_widget |-> "",
     m_index |-> 0, m_max |-> Zero, m_min |-> Zero, m_alarm |-> Zero,
     m_fftSamples |-> 0, m_jsonData |-> EmptyObject]

Dataset ==
    [m_fft |-> FALSE, m_led |-> FALSE, m_log |-> FALSE, m_graph |-> FALSE,
     m_title |-> "", m_value |-> "", m_units |-> "", m_widget |-> "",
     m_index |-> 0, m_max |-> Zero, m_min |-> Zero, m_alarm |-> Zero,
     m_fftSamples |-> 1024, m_jsonData |-> EmptyObject]

fft(d)      == d.m_fft
led(d)      == d.m_led
log(d)      == d.m_log
graph(d)    == d.m_graph
min(d)      == d.m_min
max(d)      == d.m_max
alarm(d)    == d.m_alarm
title(d)    == d.m_title
value(d)    == d.m_value
units(d)    == d.m_units
widget(d)   == d.m_widget
jsonData(d) == d.m_jsonData

\* Faulty variant: the stored count is returned as it is
fftSamples_unfloored(d) == d.m_fftSamples
fftSamples(d) == qMax(1, d.m_fftSamples)

\* What the thirteen accessors return
Accessors(d) ==
    [fft |-> fft(d), led |-> led(d), log |-> log(d), graph |-> graph(d),
     min |-> min(d), max |-> max(d), alarm |-> alarm(d), title |-> title(d),
     value |-> value(d), units |-> units(d), widget |-> widget(d),
     fftSamples |-> fftSamples(d), jsonData |-> jsonData(d)]

\* Faulty variant: the aliases are not consulted
Extract_noAlias(object) ==
    [fft   |-> toBool(JFI_Value(object, <<"fft">>)),
     led   |-> toBool(JFI_Value(object, <<"led">>)),
     log   |-> toBool(JFI_Value(object, <<"log">>)),
     min   |-> toDouble(JFI_Value(object, <<"min">>)),
     max   |-> toDouble(JFI_Value(object, <<"max">>)),
     alarm |-> toDouble(JFI_Value(object, <<"alarm">>)),
     graph |-> toBool(JFI_Value(object, <<"graph">>)),
     title |-> toString(JFI_Value(object, <<"title", "t">>)),
     value |-> toString(JFI_Value(object, <<"value", "v">>)),
     units |-> toString(JFI_Value(object, <<"units">>)),
     widget |-> toString(JFI_Value(object, <<"widget">>)),
     fftSamples |-> toInt(JFI_Value(object, <<"fftSamples">>))]

\* The locals of read(): each key looked up and converted
Extract(object) ==
    [fft   |-> toBool(JFI_Value(object, <<"fft">>)),
     led   |-> toBool(JFI_Value(object, <<"led">>)),
     log   |-> toBool(JFI_Value(object, <<"log">>)),
     min   |-> toDouble(JFI_Value(object, <<"min">>)),
     max   |-> toDouble(JFI_Value(object, <<"max">>)),
     alarm |-> toDouble(JFI_Value(object, <<"alarm">>)),
     graph |-> toBool(JFI_Value(object, <<"graph", "g">>)),
     title |-> toString(JFI_Value(object, <<"title", "t">>)),
     value |-> toString(JFI_Value(object, <<"value", "v">>)),
     units |-> toString(JFI_Value(object, <<"units", "u">>)),
     widget |-> toString(JFI_Value(object, <<"widget", "w">>)),
     fftSamples |-> toInt(JFI_Value(object, <<"fftSamples">>))]

\* The assignments of read() once the gate is passed
Assign(d, x, object) ==
    [d EXCEPT !.m_min = x.min, !.m_max = x.max, !.m_fft = x.fft,
              !.m_led = x.led, !.m_log = x.log, !.m_graph = x.graph,
              !.m_title = x.title, !.m_units = x.units, !.m_value = x.value,
              !.m_alarm = x.alarm, !.m_widget = x.widget,
              !.m_jsonData = object, !.m_fftSamples = x.fftSamples]

\* Faulty variant: the object is retained before the gate
read_retainFirst(d, object) ==
    IF ~isEmpty(object)
    THEN LET x == Extract(object)
             e == [d EXCEPT !.m_jsonData = object]
         IN  IF x.value # "" /\ x.title # ""
             THEN [d |-> Assign(d, x, object), ret |-> TRUE]
             ELSE [d |-> e, ret |-> FALSE]
    ELSE [d |-> d, ret |-> FALSE]

\* Faulty variant: the title is stored before the gate
read_titleFirst(d, object) ==
    IF ~isEmpty(object)
    THEN LET x == Extract(object)
             e == [d EXCEPT !.m_title = x.title]
         IN  IF x.value # "" /\ x.title # ""
             THEN [d |-> Assign(d, x, object), ret |-> TRUE]
             ELSE [d |-> e, ret |-> FALSE]
    ELSE [d |-> d, ret |-> FALSE]

\* Faulty variant: the gate also wants units
read_unitsGate(d, object) ==
    IF ~isEmpty(object)
    THEN LET x == Extract(object)
         IN  IF x.value # "" /\ x.title # "" /\ x.units # ""
             THEN [d |-> Assign(d, x, object), ret |-> TRUE]
             ELSE [d |-> d, ret |-> FALSE]
    ELSE [d |-> d, ret |-> FALSE]

\* Faulty variant: m_units is not assigned
read_keepUnits(d, object) ==
    IF ~isEmpty(object)
    THEN LET x == Extract(object)
         IN  IF x.value # "" /\ x.title # ""
             THEN [d |-> [Assign(d, x, object) EXCEPT !.m_units = d.m_units],
                   ret |-> TRUE]
             ELSE [d |-> d, ret |-> FALSE]
    ELSE [d |-> d, ret |-> FALSE]

\* Faulty variant: m_alarm is only ever raised
read_keepAlarm(d, object) ==
    IF ~isEmpty(object)
    THEN LET x == Extract(object)
         IN  IF x.value # "" /\ x.title # ""
             THEN [d |-> [Assign(d, x, object) EXCEPT
                             !.m_alarm = IF x.alarm = Zero THEN d.m_alarm
                                         ELSE x.alarm],
                   ret |-> TRUE]
             ELSE [d |-> d, ret |-> FALSE]
    ELSE [d |-> d, ret |-> FALSE]

\* bool Dataset::read(const QJsonObject &object): the new members and the result
read(d, object) ==
    IF ~isEmpty(object)
    THEN LET x == Extract(object)
         IN  IF x.value # "" /\ x.title # ""
             THEN [d |-> Assign(d, x, object), ret |-> TRUE]
             ELSE [d |-> d, ret |-> FALSE]
    ELSE [d |-> d, ret |-> FALSE]

----------------------------------------------------------------------------
(* The objects handed to read() *)

NumRange == -1 .. MaxNum

\* Entries for a field with an alias: none, either key, both keys, and a
\* primary key or an alias that carries an unusable value
AliasParts(key, alias, good, alt, bads) ==
    {EmptyObject, Entry(key, good), Entry(alias, alt),
     Entry(key, good) @@ Entry(alias, alt)}
    \cup {Entry(key, b) : b \in bads}
    \cup {Entry(alias, b) : b \in bads}
    \cup {Entry(key, b) @@ Entry(alias, alt) : b \in bads}

TitleParts ==
    AliasParts("title", "t", JStr("Temperature"), JStr("Speed"),
               {JStr(""), JNum(MaxNum)})
ValueParts ==
    AliasParts("value", "v", JStr("42"), JStr("10"),
               {JStr(""), JNum(MaxNum)})

PrimaryBase == Entry("title", JStr("Temperature")) @@ Entry("value", JStr("42"))
AliasBase   == Entry("t", JStr("Speed")) @@ Entry("v", JStr("10"))

Doubles ==
    {JNum(n) : n \in NumRange} \cup {JDbl(Dbl(1, "half")), JDbl(Dbl(1, "huge"))}

FlagExtras ==
    {Entry(k, v) : k \in {"fft", "led", "log"},
                   v \in {JBool(TRUE), JBool(FALSE), JStr("true"), JNum(1)}}
NumberExtras ==
    {Entry(k, v) : k \in {"min", "max", "alarm"},
                   v \in Doubles \cup {JStr("5")}}
SampleExtras ==
    {Entry("fftSamples", v) : v \in Doubles \cup {JNum(2048), JStr("8")}}
GraphExtras ==
    AliasParts("graph", "g", JBool(TRUE), JBool(TRUE),
               {JBool(FALSE), JStr("yes")}) \ {EmptyObject}
UnitsExtras ==
    AliasParts("units", "u", JStr("m/s"), JStr("km/h"),
               {JStr(""), JNum(MaxNum)}) \ {EmptyObject}
WidgetExtras ==
    AliasParts("widget", "w", JStr("bar"), JStr("gauge"),
               {JStr(""), JBool(TRUE)}) \ {EmptyObject}

Extras == FlagExtras \cup NumberExtras \cup SampleExtras \cup GraphExtras
          \cup UnitsExtras \cup WidgetExtras

\* Every key given, under the primary names and under the aliases
FullPrimary ==
    PrimaryBase @@ Entry("fft", JBool(TRUE)) @@ Entry("led", JBool(TRUE))
    @@ Entry("log", JBool(TRUE)) @@ Entry("min", JNum(-1))
    @@ Entry("max", JNum(MaxNum)) @@ Entry("alarm", JNum(1))
    @@ Entry("graph", JBool(TRUE)) @@ Entry("units", JStr("m/s"))
    @@ Entry("widget", JStr("bar")) @@ Entry("fftSamples", JNum(2048))
FullAlias ==
    AliasBase @@ Entry("fft", JBool(FALSE)) @@ Entry("led", JBool(TRUE))
    @@ Entry("log", JBool(FALSE)) @@ Entry("min", JNum(0))
    @@ Entry("max", JDbl(Dbl(1, "half"))) @@ Entry("alarm", JNum(MaxNum))
    @@ Entry("g", JBool(TRUE)) @@ Entry("u", JStr("km/h"))
    @@ Entry("w", JStr("gauge")) @@ Entry("fftSamples", JNum(0))

\* The title entries that need nothing more to be usable, and the same for value
PlainTitles == {EmptyObject, Entry("title", JStr("Temperature")),
                Entry("t", JStr("Speed"))}
PlainValues == {EmptyObject, Entry("value", JStr("42")), Entry("v", JStr("10"))}

Objects ==
    {t @@ v : t \in TitleParts, v \in PlainValues}
    \cup {t @@ v : t \in PlainTitles, v \in ValueParts}
    \cup {PrimaryBase @@ e : e \in Extras}
    \cup {AliasBase @@ e : e \in GraphExtras \cup UnitsExtras \cup WidgetExtras}
    \cup {FullPrimary, FullAlias}

\* The objects fed to the two instances when they are compared
PairObjects ==
    {EmptyObject, FullPrimary, FullAlias, PrimaryBase, AliasBase,
     Entry("title", JStr("Temperature")), Entry("v", JStr("10")),
     Entry("title", JNum(MaxNum)) @@ Entry("value", JStr("42"))}
    \cup {PrimaryBase @@ e : e \in SampleExtras}
    \cup {AliasBase @@ e : e \in GraphExtras}

----------------------------------------------------------------------------
(* State machine *)

None == [some |-> FALSE, o |-> EmptyObject]
Some(object) == [some |-> TRUE, o |-> object]

Init ==
    /\ ds = [i \in Instances |-> Dataset]
    /\ who = 0
    /\ arg = EmptyObject
    /\ ret = FALSE
    /\ lastOk = [i \in Instances |-> None]
    /\ m_widget = 0
    /\ m_pixmap = <<0, 0>>
    /\ handled = [w \in 1 .. MaxWidgets |-> 0]
    /\ life = [w \in 1 .. MaxWidgets |-> "unborn"]
    /\ fixedSize = [w \in 1 .. MaxWidgets |-> << >>]
    /\ itemW = 0
    /\ itemH = 0
    /\ misuse = {}
    /\ crashed = FALSE

\* A call of read(object) on instance i
Read(i, object) ==
    /\ LET r == read(ds[i], object)
       IN  /\ ds' = [ds EXCEPT ![i] = r.d]
           /\ ret' = r.ret
           /\ lastOk' = IF r.ret THEN [lastOk EXCEPT ![i] = Some(object)]
                        ELSE lastOk
    /\ who' = i
    /\ arg' = object
    /\ UNCHANGED dwVars

\* One Dataset, fed any sequence of objects
Next == \E object \in Objects : Read(1, object)
Spec == Init /\ [][Next]_vars

\* Two Datasets, each fed any sequence of objects
NextPair == \E i \in Instances, object \in PairObjects : Read(i, object)
SpecPair == Init /\ [][NextPair]_vars

----------------------------------------------------------------------------
(* What the claims expect of an object, stated without read() *)

\* The entry a lookup under key, then under alias, selects; Null when neither
Lookup(o, key, alias) ==
    IF key \in DOMAIN o THEN o[key]
    ELSE IF alias \in DOMAIN o THEN o[alias]
    ELSE JNull
Present(o, key, alias) == key \in DOMAIN o \/ alias \in DOMAIN o

AsBool(e)   == IF e.type = "bool" THEN e.b ELSE FALSE
AsNumber(e) == IF e.type = "double" THEN e.d ELSE Zero
AsString(e) == IF e.type = "string" THEN e.s ELSE ""
AsInteger(e) == IF e.type = "double" /\ e.d.k = "whole" THEN e.d.w ELSE 0
AtLeastOne(n) == IF n >= 1 THEN n ELSE 1

\* The entry is missing, or is the string ""
MissingOrEmpty(o, key, alias) ==
    \/ ~Present(o, key, alias)
    \/ Lookup(o, key, alias) = JStr("")

\* The inputs the spec lists as failing
Failing(o) ==
    \/ o = EmptyObject
    \/ MissingOrEmpty(o, "title", "t")
    \/ MissingOrEmpty(o, "value", "v")

\* The inputs whose title and value are both strings other than ""
Usable(o) ==
    /\ o # EmptyObject
    /\ AsString(Lookup(o, "title", "t")) # ""
    /\ AsString(Lookup(o, "value", "v")) # ""

\* What the accessors are to return after a successful decode of o
Expected(o) ==
    [fft    |-> AsBool(Lookup(o, "fft", "fft")),
     led    |-> AsBool(Lookup(o, "led", "led")),
     log    |-> AsBool(Lookup(o, "log", "log")),
     graph  |-> AsBool(Lookup(o, "graph", "g")),
     min    |-> AsNumber(Lookup(o, "min", "min")),
     max    |-> AsNumber(Lookup(o, "max", "max")),
     alarm  |-> AsNumber(Lookup(o, "alarm", "alarm")),
     title  |-> AsString(Lookup(o, "title", "t")),
     value  |-> AsString(Lookup(o, "value", "v")),
     units  |-> AsString(Lookup(o, "units", "u")),
     widget |-> AsString(Lookup(o, "widget", "w")),
     fftSamples |-> AtLeastOne(AsInteger(Lookup(o, "fftSamples", "fftSamples"))),
     jsonData |-> o]

Called == who # 0

----------------------------------------------------------------------------
(* Claims about JSON::Dataset *)

\* C1: a read of an empty object, or of one whose title or value is missing
\* or "", returns false and leaves what every accessor returns as it was.
C1_FailedReadChangesNothing ==
    [][(who' # 0 /\ Failing(arg'))
          => /\ ret' = FALSE
             /\ \A i \in Instances : Accessors(ds'[i]) = Accessors(ds[i])]_vars

\* C1 witness: a failed read of a non-empty object after a successful one
C1_Witness ==
    /\ Called /\ ~ret /\ lastOk[who].some
    /\ Failing(arg) /\ ~isEmpty(arg)

\* C2: read returns true exactly when title and value are both present and
\* not "", whatever JSON type they carry; it returns false only for the
\* inputs listed as failing.
C2_TrueForAnyPresentTitleAndValue ==
    Called => (ret <=> ~Failing(arg))

\* C2 amended: read returns true exactly when the object is not empty and
\* its title and value entries are both strings other than ""; an entry of
\* another JSON type counts as "", and no optional field matters.
C2_TrueIffStringTitleAndValue ==
    Called => (ret <=> Usable(arg))

\* C2 witness: a read succeeded although an optional field is wrongly typed
C2_Witness ==
    /\ Called /\ ret
    /\ "fft" \in DOMAIN arg /\ arg["fft"].type = "string"

\* C3: after read returned true for o, every accessor returns the value
\* extracted from o and coerced to its type, or the type's default, and
\* jsonData() is o; nothing of an earlier decode is left.
C3_FieldsAreCoercedExtraction ==
    (Called /\ ret)
        => /\ Accessors(ds[who]) = Expected(arg)
           /\ ds[who].m_fftSamples = AsInteger(Lookup(arg, "fftSamples", "fftSamples"))

\* C3 witness: a successful read of an object whose units are wrongly typed
C3_Witness ==
    /\ Called /\ ret
    /\ "units" \in DOMAIN arg /\ arg["units"].type = "double"
    /\ units(ds[who]) = ""

\* The value of an aliased field: the primary key when present, else the
\* alias when present, else the zero value
AliasRule(o, key, alias, zero) ==
    CASE key \in DOMAIN o -> o[key]
      [] key \notin DOMAIN o /\ alias \in DOMAIN o -> o[alias]
      [] OTHER -> zero

\* C4: for graph/g, title/t, value/v, units/u and widget/w the primary key
\* wins whenever it is present, the alias is used only when the primary key
\* is absent, and the zero value results when neither is present; the object
\* holding only t, v and g decodes successfully from the aliases.
C4_PrimaryThenAlias ==
    /\ (Called /\ ret) =>
          LET d == ds[who]
          IN  /\ graph(d)  = AsBool(AliasRule(arg, "graph", "g", JBool(FALSE)))
              /\ title(d)  = AsString(AliasRule(arg, "title", "t", JStr("")))
              /\ value(d)  = AsString(AliasRule(arg, "value", "v", JStr("")))
              /\ units(d)  = AsString(AliasRule(arg, "units", "u", JStr("")))
              /\ widget(d) = AsString(AliasRule(arg, "widget", "w", JStr("")))
    /\ (Called /\ arg = AliasBase @@ Entry("g", JBool(TRUE))) =>
          /\ ret
          /\ graph(ds[who]) = TRUE
          /\ title(ds[who]) = "Speed"
          /\ value(ds[who]) = "10"

\* C4 witness: the object holding only t, v and g has been read
C4_Witness ==
    /\ Called /\ ret
    /\ arg = AliasBase @@ Entry("g", JBool(TRUE))

\* C5: fftSamples() is at least 1 in every state; after a successful read it
\* is 1 when the object has no fftSamples key or gives 0, and n when the
\* object gives an integer n >= 1.
C5_FftSamplesFloor ==
    /\ \A i \in Instances : fftSamples(ds[i]) >= 1
    /\ (Called /\ ret) =>
          LET n == fftSamples(ds[who])
          IN  /\ "fftSamples" \notin DOMAIN arg => n = 1
              /\ ("fftSamples" \in DOMAIN arg /\ arg["fftSamples"] = JNum(0))
                    => n = 1
              /\ ("fftSamples" \in DOMAIN arg
                  /\ arg["fftSamples"] = JNum(arg["fftSamples"].d.w)
                  /\ arg["fftSamples"].d.w >= 1)
                    => n = arg["fftSamples"].d.w

\* C5 witness: a negative sample count is stored and reported as 1
C5_Witness ==
    /\ Called /\ ret
    /\ "fftSamples" \in DOMAIN arg /\ arg["fftSamples"] = JNum(-1)
    /\ ds[who].m_fftSamples = -1

\* The members other than m_fftSamples have their defaults
DefaultsButSamples(d) ==
    /\ title(d) = "" /\ value(d) = "" /\ units(d) = "" /\ widget(d) = ""
    /\ min(d) = Zero /\ max(d) = Zero /\ alarm(d) = Zero
    /\ ~fft(d) /\ ~led(d) /\ ~log(d) /\ ~graph(d)
    /\ jsonData(d) = EmptyObject

\* C6 as stated: until its first successful decode a Dataset has all-default
\* values, with the fftSamples default 0 reported as 1.
C6_DefaultsWithZeroSamples ==
    \A i \in Instances :
        ~lastOk[i].some
            => /\ DefaultsButSamples(ds[i])
               /\ ds[i].m_fftSamples = 0
               /\ fftSamples(ds[i]) = 1

\* C6 amended: until its first successful decode a Dataset has all-default
\* values, with the fftSamples default 1024 reported as 1024.
C6_DefaultsWith1024Samples ==
    \A i \in Instances :
        ~lastOk[i].some
            => /\ DefaultsButSamples(ds[i])
               /\ ds[i].m_fftSamples = 1024
               /\ fftSamples(ds[i]) = 1024

\* C6 witness: a read has failed on an instance that never decoded anything
C6_Witness ==
    /\ Called /\ ~ret /\ ~lastOk[who].some
    /\ "title" \in DOMAIN arg

\* C7: two Datasets whose last successful read was of the same object agree
\* on every accessor whatever they held before, and a read of the object
\* that was just read successfully returns true again and changes nothing.
C7_SuccessOverwritesAll ==
    /\ [](\A i, j \in Instances :
            (lastOk[i].some /\ lastOk[i] = lastOk[j])
                => Accessors(ds[i]) = Accessors(ds[j]))
    /\ [][(Called /\ ret /\ who' = who /\ arg' = arg)
             => (ret' /\ Accessors(ds'[who]) = Accessors(ds[who]))]_vars

\* C7 witness: both instances have successfully read the same object, the
\* last call being the successful read of it
C7_Witness ==
    /\ Called /\ ret
    /\ lastOk[1].some /\ lastOk[1] = lastOk[2]
    /\ arg = lastOk[who].o

\* C8: either no read has succeeded and jsonData(), title() and value() are
\* empty, or jsonData() is the object of the most recent successful read,
\* title() and value() are not empty and the accessors return what that
\* object yields.
C8_RawSourceConsistent ==
    \A i \in Instances :
        IF ~lastOk[i].some
        THEN /\ jsonData(ds[i]) = EmptyObject
             /\ title(ds[i]) = ""
             /\ value(ds[i]) = ""
        ELSE /\ jsonData(ds[i]) = lastOk[i].o
             /\ title(ds[i]) # ""
             /\ value(ds[i]) # ""
             /\ Accessors(ds[i]) = Expected(jsonData(ds[i]))

\* C8 witness: a read that had a title but no value failed after a success
C8_Witness ==
    /\ Called /\ ~ret /\ lastOk[who].some
    /\ Present(arg, "title", "t") /\ ~Present(arg, "value", "v")

----------------------------------------------------------------------------
(* UI::DeclarativeWidget *)

NULL == 0
Widgets == 1 .. MaxWidgets
\* qreal sizes in half units: -1/2, 0, 1/2, 1, ... MaxDim
Dims == -1 .. (MaxDim + MaxDim)
\* the int a positive qreal is converted to by setFixedSize(int, int)
ToInt(q) == q \div 2

\* QWidget *DeclarativeWidget::widget()
DW_widget == m_widget

\* The outcomes of a step: it may kill the process only if it ran into
\* undefined behaviour
Outcome(ub) == IF ub THEN BOOLEAN ELSE {FALSE}

\* update(): grabs the widget into m_pixmap when there is one
update(mw, lf, hd) ==
    [m_pixmap |-> IF mw # NULL THEN <<mw, hd[mw]>> ELSE m_pixmap,
     misuse   |-> IF mw # NULL /\ lf[mw] = "deleted" THEN misuse \cup {mw}
                  ELSE misuse,
     ub       |-> mw # NULL /\ lf[mw] = "deleted"]

\* resizeWidget() for an item of width w and height h
resizeWidget(w, h) ==
    IF DW_widget # NULL /\ w > 0 /\ h > 0
    THEN [fixedSize |-> [fixedSize EXCEPT ![m_widget] = <<ToInt(w), ToInt(h)>>],
          upd |-> update(m_widget, life, handled)]
    ELSE [fixedSize |-> fixedSize,
          upd |-> [m_pixmap |-> m_pixmap, misuse |-> misuse, ub |-> FALSE]]

\* setWidth(x) of the item: widthChanged is emitted when the width changes
SetWidth(x) ==
    /\ ~crashed
    /\ x # itemW
    /\ itemW' = x
    /\ LET r == resizeWidget(x, itemH)
       IN  /\ fixedSize' = r.fixedSize
           /\ m_pixmap' = r.upd.m_pixmap
           /\ misuse' = r.upd.misuse
           /\ crashed' \in Outcome(r.upd.ub)
    /\ UNCHANGED <<itemH, m_widget, life, handled>>
    /\ UNCHANGED dsVars

\* setHeight(y) of the item: heightChanged is emitted when the height changes
SetHeight(y) ==
    /\ ~crashed
    /\ y # itemH
    /\ itemH' = y
    /\ LET r == resizeWidget(itemW, y)
       IN  /\ fixedSize' = r.fixedSize
           /\ m_pixmap' = r.upd.m_pixmap
           /\ misuse' = r.upd.misuse
           /\ crashed' \in Outcome(r.upd.ub)
    /\ UNCHANGED <<itemW, m_widget, life, handled>>
    /\ UNCHANGED dsVars

\* Any of the event handlers: EXEC_EVENT forwards to the widget, then update()
ExecEvent ==
    /\ ~crashed
    /\ IF m_widget = NULL THEN TRUE ELSE handled[m_widget] < MaxEvents
    /\ handled' = IF m_widget = NULL THEN handled
                  ELSE [handled EXCEPT ![m_widget] = @ + 1]
    /\ LET u == update(m_widget, life, handled')
       IN  /\ m_pixmap' = u.m_pixmap
           /\ misuse' = u.misuse
           /\ crashed' \in Outcome(u.ub)
    /\ UNCHANGED <<m_widget, life, fixedSize, itemW, itemH>>
    /\ UNCHANGED dsVars

\* setWidget(w): w is null, a widget the caller has just created, or a
\* widget the caller took from widget()
SetWidget(w) ==
    /\ ~crashed
    /\ IF w = NULL THEN TRUE ELSE (life[w] # "deleted" \/ w = m_widget)
    /\ IF w = NULL
       THEN UNCHANGED dwVars
       ELSE LET created == [life EXCEPT ![w] = IF @ = "unborn" THEN "alive" ELSE @]
                \* delete m_widget
                twice == m_widget # NULL /\ created[m_widget] = "deleted"
                freed == IF m_widget # NULL
                         THEN [created EXCEPT ![m_widget] = "deleted"]
                         ELSE created
                \* m_widget = widget: a QPointer to a freed object may
                \* come out as the pointer or as null
                dangling == freed[w] = "deleted"
            IN  /\ life' = freed
                /\ m_widget' \in (IF dangling THEN {w, NULL} ELSE {w})
                \* Q_EMIT widgetChanged() runs update()
                /\ LET u == update(m_widget', freed, handled)
                   IN  /\ m_pixmap' = u.m_pixmap
                       /\ misuse' = u.misuse
                       /\ crashed' \in Outcome(twice \/ dangling \/ u.ub)
                /\ UNCHANGED <<fixedSize, itemW, itemH, handled>>
    /\ UNCHANGED dsVars

\* One DeclarativeWidget under any interleaving of its callers
NextWidget ==
    \/ \E w \in Widgets \cup {NULL} : SetWidget(w)
    \/ \E x \in Dims : SetWidth(x)
    \/ \E y \in Dims : SetHeight(y)
    \/ ExecEvent
SpecWidget == Init /\ [][NextWidget]_vars

----------------------------------------------------------------------------
(* Claims about UI::DeclarativeWidget *)

\* C9: the widget the item holds is none or one that has not been deleted,
\* and the item never forwards events to, grabs or resizes a widget it has
\* deleted.
C9_NeverUsesDeletedWidget ==
    /\ IF m_widget = NULL THEN TRUE ELSE life[m_widget] # "deleted"
    /\ misuse = {}

\* C10: whenever the item holds a widget and its width and height are both
\* positive, the widget's fixed size is the item's width and height.
C10_WidgetHasItemSize ==
    (m_widget # NULL /\ itemW > 0 /\ itemH > 0)
        => fixedSize[m_widget] = <<ToInt(itemW), ToInt(itemH)>>

====
